---- MODULE Spec2Model ----
(***************************************************************************)
(* Model of agent/lambda/agent-handler/lambda_function.py: one invocation  *)
(* of handler(event, context), its two paths (kendra_search / invoke_llm   *)
(* and genai_intent / invoke_fm), the outbound calls it makes and the      *)
(* envelope lex_format_response builds.                                    *)
(*                                                                         *)
(* Python strings that the code slices or concatenates are sequences of    *)
(* one-character strings.  Python values whose type varies (str, None,     *)
(* dict) are tagged records [t |-> type, v |-> value].                     *)
(***************************************************************************)
EXTENDS Integers, Sequences, FiniteSets, TLC

VARIABLES event, pc, response_text, envelope, error, calls, tz

vars == <<event, pc, response_text, envelope, error, calls, tz>>

(* ---------------- bounds of the enumerated inputs ---------------------- *)

\* longest text that follows the literal prefix in an enumerated message
MaxTail == 4

(* ---------------- Python values --------------------------------------- *)

PyStr(s) == [t |-> "str", v |-> s]

PyNone == [t |-> "None", v |-> {}]

PyDict(d) == [t |-> "dict", v |-> d]

PyList == [t |-> "list", v |-> {}]

\* a name that is not bound / a key that is not present
Absent == [t |-> "absent", v |-> {}]

\* dict.get(key) on a dict held as a set of <<key, value>> pairs
dict_get(d, key) ==
    IF \E p \in d : p[1] = key
    THEN (CHOOSE p \in d : p[1] = key)[2]
    ELSE PyNone

(* ---------------- str methods ------------------------------------------ *)

startswith(s, p) == Len(s) >= Len(p) /\ SubSeq(s, 1, Len(p)) = p

endswith(s, p) == Len(s) >= Len(p) /\ SubSeq(s, Len(s) - Len(p) + 1, Len(s)) = p

removeprefix(s, p) == IF startswith(s, p) THEN SubSeq(s, Len(p) + 1, Len(s)) ELSE s

removesuffix(s, p) == IF endswith(s, p) THEN SubSeq(s, 1, Len(s) - Len(p)) ELSE s

(* ---------------- literals of invoke_fm -------------------------------- *)

\* the backtick character (U+0060)
BT == "BACKTICK"

\* "Could not parse LLM output:"  (the startswith test)
ParsePrefix ==
    <<"C","o","u","l","d"," ","n","o","t"," ","p","a","r","s","e"," ",
      "L","L","M"," ","o","u","t","p","u","t",":">>

\* ParsePrefix followed by a space and a backtick  (the removeprefix argument)
StripPrefix == ParsePrefix \o <<" ", BT>>

Backtick == <<BT>>

HumanPreamble == <<"\n","\n","H","u","m","a","n",":"," ">>

AssistantCue == <<" ","\n","\n","A","s","s","i","s","t","a","n","t",":">>

formatted_prompt(prompt) == HumanPreamble \o prompt \o AssistantCue

\* variant: every ValueError is swallowed
IsRecoverable_anyValueError(e) == e.type = "ValueError"

\* line 92 under `except ValueError`: which failures are not re-raised

IsRecoverable(e) == e.type = "ValueError" /\ startswith(e.msg, ParsePrefix)

\* variant: the closing backtick is left in place
sanitize_keep_suffix(message) == removeprefix(message, StripPrefix)

\* line 94: the answer text made from a recoverable failure message
sanitize(message) == removesuffix(removeprefix(message, StripPrefix), Backtick)

(* ---------------- enumerated inputs ------------------------------------ *)

TailChars == {" ", BT, "a"}

SeqsUpTo(S, n) == UNION {[1..k -> S] : k \in 0..n}

Tails == SeqsUpTo(TailChars, MaxTail)

\* messages a failure of lex_agent.run can carry
Messages ==
    {ParsePrefix \o x : x \in Tails}
    \cup Tails
    \cup {SubSeq(ParsePrefix, 1, Len(ParsePrefix) - 1), <<"t","i","m","e","o","u","t">>}

Failures == [type : {"ValueError", "ClientError"}, msg : Messages]

\* texts lex_agent.run can return
Texts == {<<"4","2">>, <<>>, ParsePrefix \o <<" ",BT,"a",BT>>}

Transcripts == {<<>>, <<"h","i">>}

SessionAttributes ==
    {Absent, PyNone, PyDict({}), PyDict({<<"history", "none">>}),
     PyDict({<<"loanAmount", "100">>, <<"history", "turn1">>})}

Events ==
    [inputTranscript : Transcripts,
     invocationSource : {"DialogCodeHook", "FulfillmentCodeHook"},
     sessionState : [sessionAttributes : SessionAttributes,
                     intent : [name : {"FallbackIntent"},
                               state : {"InProgress", "ReadyForFulfillment"}]],
     sessionId : {"session-1"},
     requestAttributes : {Absent, PyDict({<<"channel", "web">>})}]

KendraResponses == {PyDict({<<"ResultItems", PyList>>}), PyDict({})}

\* response bodies of bedrock.invoke_model, as json.loads sees them
Bodies ==
    {[json |-> "object", fields |-> {<<"completion", PyStr(<<"I"," ","d","o","n","t"," ","k","n","o","w">>)>>}],
     [json |-> "object", fields |-> {<<"completion", PyStr(<<>>)>>, <<"stop_reason", PyStr(<<"s">>)>>}],
     [json |-> "object", fields |-> {<<"completion", PyNone>>}],
     [json |-> "object", fields |-> {<<"stop_reason", PyStr(<<"s">>)>>}],
     [json |-> "object", fields |-> {}],
     [json |-> "array", fields |-> {}],
     [json |-> "malformed", fields |-> {}]}

ServiceErrors == {[type |-> "ClientError", msg |-> <<"t","i","m","e","o","u","t">>]}

(* ---------------- envelopes -------------------------------------------- *)

\* lines 40-76
elicit_intent(intent_request, session_attributes, message) ==
    [t |-> "dict",
     v |-> [sessionState |-> [dialogAction |-> [type |-> "ElicitIntent"],
                              sessionAttributes |-> session_attributes],
            messages |-> <<[contentType |-> "PlainText", content |-> message],
                           [contentType |-> "ImageResponseCard",
                            buttons |-> <<"Loan Application", "Loan Calculator", "Ask GenAI">>,
                            title |-> "How can I help you?"]>>]]

\* line 25: the event's intent is marked fulfilled in place
Fulfil(ev) == [ev EXCEPT !.sessionState.intent.state = "Fulfilled"]

\* variant: the intent is echoed back as it came in
lex_format_response_stale_intent(ev, text) ==
    [sessionState |-> [sessionAttributes |-> {<<"history", "none">>},
                       dialogAction |-> [type |-> "Close"],
                       intent |-> ev.sessionState.intent],
     messages |-> <<[contentType |-> "PlainText", content |-> text]>>,
     sessionId |-> ev.sessionId,
     requestAttributes |-> IF ev.requestAttributes.t # "absent"
                           THEN ev.requestAttributes ELSE PyNone]

\* lines 24-38
lex_format_response(ev, text) ==
    [sessionState |-> [sessionAttributes |-> {<<"history", "none">>},
                       dialogAction |-> [type |-> "Close"],
                       intent |-> Fulfil(ev).sessionState.intent],
     messages |-> <<[contentType |-> "PlainText", content |-> text]>>,
     sessionId |-> ev.sessionId,
     requestAttributes |-> IF ev.requestAttributes.t # "absent"
                           THEN ev.requestAttributes ELSE PyNone]

(* ---------------- the two paths ---------------------------------------- *)

\* variant: the test of the transcript is inverted
Route_inverted(user_input) == IF user_input # <<>> THEN "search" ELSE "assistant"

\* line 208
Route(user_input) == IF user_input = <<>> THEN "search" ELSE "assistant"

\* variant: the invocation source is not tested
IsDialogCodeHook_always(intent_request) == intent_request.invocationSource = intent_request.invocationSource

\* variant: the other code hook is tested for
IsDialogCodeHook_fulfillment(intent_request) == intent_request.invocationSource = "FulfillmentCodeHook"

\* line 105
IsDialogCodeHook(intent_request) == intent_request.invocationSource = "DialogCodeHook"

\* line 103: sessionState.get("sessionAttributes") or {}
session_attributes_of(intent_request) ==
    LET a == intent_request.sessionState.sessionAttributes
    IN  IF a.t = "dict" /\ a.v # {} THEN a.v ELSE {}

\* lines 117-124
retrieve_request ==
    [t |-> "retrieve",
     v |-> [IndexId |-> "823fed26-38f9-490a-bdfc-d89e19f95a63",
            QueryText |-> "get me wiki",
            PageNumber |-> 1,
            PageSize |-> 15]]

\* lines 140-198
invoke_model_request(intent_request, kendra_response) ==
    [t |-> "invoke_model",
     v |-> [modelId |-> "anthropic.claude-v2",
            accept |-> "application/json",
            contentType |-> "application/json",
            body |-> [prompt |-> [Question |-> intent_request, Context |-> kendra_response],
                      max_tokens_to_sample |-> 8191,
                      temperature |-> 0,
                      top_k |-> 250,
                      top_p |-> "0.5",
                      stop_sequences |-> <<>>]]]

\* lines 82-89
agent_request(prompt) ==
    [t |-> "run",
     v |-> [model_id |-> "anthropic.claude-v2",
            max_tokens_to_sample |-> 350,
            input |-> formatted_prompt(prompt)]]

Call(svc, req) == [svc |-> svc, kind |-> "call", data |-> req]

Return(svc, val) == [svc |-> svc, kind |-> "return", data |-> [t |-> "value", v |-> val]]

Raise(svc, e) == [svc |-> svc, kind |-> "raise", data |-> [t |-> "exception", v |-> e]]

\* variant: response_body['completion'] instead of .get('completion')
invoke_llm_answer_subscript(body) ==
    IF body.json = "malformed"
    THEN [raised |-> TRUE, val |-> [type |-> "JSONDecodeError", msg |-> <<>>]]
    ELSE IF body.json # "object"
    THEN [raised |-> TRUE, val |-> [type |-> "TypeError", msg |-> <<>>]]
    ELSE IF \E p \in body.fields : p[1] = "completion"
    THEN [raised |-> FALSE, val |-> dict_get(body.fields, "completion")]
    ELSE [raised |-> TRUE, val |-> [type |-> "KeyError", msg |-> <<"c","o","m","p","l","e","t","i","o","n">>]]

\* lines 200-202: json.loads(...) then response_body.get('completion')
invoke_llm_answer(body) ==
    IF body.json = "malformed"
    THEN [raised |-> TRUE, val |-> [type |-> "JSONDecodeError", msg |-> <<>>]]
    ELSE IF body.json # "object"
    THEN [raised |-> TRUE, val |-> [type |-> "AttributeError", msg |-> <<>>]]
    ELSE [raised |-> FALSE, val |-> dict_get(body.fields, "completion")]

\* lines 90-96: what invoke_fm does with a failure of lex_agent.run
invoke_fm_except(e) ==
    IF IsRecoverable(e)
    THEN [raised |-> FALSE, val |-> sanitize(e.msg)]
    ELSE [raised |-> TRUE, val |-> e]

(* ---------------- state machine ---------------------------------------- *)

Init ==
    /\ event \in Events
    /\ pc = "handler"
    /\ response_text = Absent
    /\ envelope = Absent
    /\ error = Absent
    /\ calls = <<>>
    /\ tz = "unset"

\* lines 207-211 up to the first outbound call: kendra_search reaches
\* kendra.retrieve (line 119), genai_intent reaches lex_agent.run (line 89)
\* or falls off its end and returns None
HandlerStart ==
    /\ pc = "handler"
    /\ IF Route(event.inputTranscript) = "search"
       THEN /\ calls' = Append(calls, Call("kendra.retrieve", retrieve_request))
            /\ pc' = "kendra.retrieve"
            /\ UNCHANGED response_text
       ELSE IF IsDialogCodeHook(event)
       THEN /\ calls' = Append(calls, Call("lex_agent.run", agent_request(event.inputTranscript)))
            /\ pc' = "lex_agent.run"
            /\ UNCHANGED response_text
       ELSE /\ response_text' = PyNone
            /\ pc' = "lex_format_response"
            /\ UNCHANGED calls
    /\ UNCHANGED <<event, envelope, error, tz>>

\* line 119 returns; invoke_llm builds the prompt and calls invoke_model (line 195)
KendraRetrieveReturn ==
    /\ pc = "kendra.retrieve"
    /\ \E kendra_response \in KendraResponses :
          calls' = calls \o <<Return("kendra.retrieve", kendra_response),
                              Call("bedrock.invoke_model",
                                   invoke_model_request(event.inputTranscript, kendra_response))>>
    /\ pc' = "bedrock.invoke_model"
    /\ UNCHANGED <<event, response_text, envelope, error, tz>>

\* line 119 raises: nothing catches it
KendraRetrieveRaise ==
    /\ pc = "kendra.retrieve"
    /\ \E e \in ServiceErrors :
          /\ calls' = Append(calls, Raise("kendra.retrieve", e))
          /\ error' = e
    /\ pc' = "raised"
    /\ UNCHANGED <<event, response_text, envelope, tz>>

\* line 195 returns; lines 200-202 decode the body and take 'completion'
InvokeModelReturn ==
    /\ pc = "bedrock.invoke_model"
    /\ \E body \in Bodies :
          LET r == invoke_llm_answer(body)
          IN  /\ calls' = Append(calls, Return("bedrock.invoke_model", body))
              /\ IF r.raised
                 THEN /\ error' = r.val
                      /\ pc' = "raised"
                      /\ UNCHANGED response_text
                 ELSE /\ response_text' = r.val
                      /\ pc' = "lex_format_response"
                      /\ UNCHANGED error
    /\ UNCHANGED <<event, envelope, tz>>

\* line 195 raises: nothing catches it
InvokeModelRaise ==
    /\ pc = "bedrock.invoke_model"
    /\ \E e \in ServiceErrors :
          /\ calls' = Append(calls, Raise("bedrock.invoke_model", e))
          /\ error' = e
    /\ pc' = "raised"
    /\ UNCHANGED <<event, response_text, envelope, tz>>

\* line 89 returns; invoke_fm returns the message and genai_intent returns
\* elicit_intent(...) of it (line 108)
AgentRunReturn ==
    /\ pc = "lex_agent.run"
    /\ \E message \in Texts :
          /\ calls' = Append(calls, Return("lex_agent.run", message))
          /\ response_text' = elicit_intent(event, session_attributes_of(event), PyStr(message))
    /\ pc' = "lex_format_response"
    /\ UNCHANGED <<event, envelope, error, tz>>

\* line 89 raises; lines 90-94 recover or re-raise
AgentRunRaise ==
    /\ pc = "lex_agent.run"
    /\ \E e \in Failures :
          LET r == invoke_fm_except(e)
          IN  /\ calls' = Append(calls, Raise("lex_agent.run", e))
              /\ IF r.raised
                 THEN /\ error' = r.val
                      /\ pc' = "raised"
                      /\ UNCHANGED response_text
                 ELSE /\ response_text' = elicit_intent(event, session_attributes_of(event), PyStr(r.val))
                      /\ pc' = "lex_format_response"
                      /\ UNCHANGED error
    /\ UNCHANGED <<event, envelope, tz>>

\* lines 216-219
HandlerReturn ==
    /\ pc = "lex_format_response"
    /\ tz' = "America/New_York"
    /\ event' = Fulfil(event)
    /\ envelope' = lex_format_response(event, response_text)
    /\ pc' = "returned"
    /\ UNCHANGED <<response_text, error, calls>>

Next ==
    \/ HandlerStart
    \/ KendraRetrieveReturn
    \/ KendraRetrieveRaise
    \/ InvokeModelReturn
    \/ InvokeModelRaise
    \/ AgentRunReturn
    \/ AgentRunRaise
    \/ HandlerReturn

Spec == Init /\ [][Next]_vars

TypeOK ==
    /\ pc \in {"handler", "kendra.retrieve", "bedrock.invoke_model", "lex_agent.run",
               "lex_format_response", "returned", "raised"}
    /\ tz \in {"unset", "America/New_York"}

(* ---------------- vocabulary of the properties ------------------------- *)

Returned == pc = "returned"

Aborted == pc = "raised"

NonEmptyTranscript == event.inputTranscript # <<>>

FromDialogCodeHook == event.invocationSource = "DialogCodeHook"

\* the agent was called and its call has come back (returned or raised)
AgentAnswered == Len(calls) >= 2 /\ calls[1].svc = "lex_agent.run"

AgentReturned == AgentAnswered /\ calls[2].kind = "return"

AgentRaised == AgentAnswered /\ calls[2].kind = "raise"

AgentFailure == calls[2].data.v

\* the direct LLM call has returned a response body
ModelReturned == Len(calls) >= 4 /\ calls[4].svc = "bedrock.invoke_model" /\ calls[4].kind = "return"

ModelBody == calls[4].data.v

HasCompletion(body) == \E p \in body.fields : p[1] = "completion"

\* the answer text invoke_fm handed to genai_intent, as elicit_intent wrapped it
AnswerText == response_text.v.messages[1].content

NumCalls(svc) == Cardinality({i \in 1..Len(calls) : calls[i].svc = svc /\ calls[i].kind = "call"})

TotalCalls == Cardinality({i \in 1..Len(calls) : calls[i].kind = "call"})

\* every outbound call has come back before the next one is made
StrictlySequential ==
    \A i \in 1..Len(calls) :
        IF i % 2 = 1
        THEN calls[i].kind = "call"
        ELSE calls[i].kind \in {"return", "raise"} /\ calls[i].svc = calls[i-1].svc

OneClosingPlainText(content) ==
    /\ envelope.sessionState.dialogAction.type = "Close"
    /\ envelope.sessionState.intent.state = "Fulfilled"
    /\ Len(envelope.messages) = 1
    /\ envelope.messages[1].contentType = "PlainText"
    /\ envelope.messages[1].content = content

\* session attributes found inside the message content of the envelope
CarriedAttributes ==
    IF envelope.messages[1].content.t = "dict"
    THEN envelope.messages[1].content.v.sessionState.sessionAttributes
    ELSE {}

(* ---------------- properties ------------------------------------------- *)

\* C1: for a non-empty transcript from the DialogCodeHook source, when the
\* agent call returns normally, the returned envelope has intent state
\* "Fulfilled" and exactly one message block, of content type PlainText.
C1_FulfilledOnePlainText ==
    (Returned /\ NonEmptyTranscript /\ FromDialogCodeHook /\ AgentReturned) =>
        /\ envelope.sessionState.intent.state = "Fulfilled"
        /\ Len(envelope.messages) = 1
        /\ envelope.messages[1].contentType = "PlainText"

C1_Witness ==
    /\ Returned /\ NonEmptyTranscript /\ FromDialogCodeHook /\ AgentReturned
    /\ calls[2].data.v = <<"4", "2">>

\* C2: for a non-empty transcript from the DialogCodeHook source the handler
\* takes the Assistant Path and the content of the single message of the
\* returned envelope is exactly the text the agent returned.
C2_ContentIsAgentText ==
    (Returned /\ NonEmptyTranscript /\ FromDialogCodeHook /\ AgentReturned) =>
        /\ Len(envelope.messages) = 1
        /\ envelope.messages[1].content = PyStr(calls[2].data.v)

\* C3: when the agent call fails with the parse failure whose message is
\* exactly the strip prefix, an answer text and one closing backtick,
\* invoke_fm does not propagate it and returns exactly the answer text.
C3_ExactParseMessage ==
    \A e \in Failures :
        (/\ AgentRaised
         /\ AgentFailure = e
         /\ e.type = "ValueError"
         /\ Len(e.msg) >= Len(StripPrefix) + 1
         /\ SubSeq(e.msg, 1, Len(StripPrefix)) = StripPrefix
         /\ e.msg[Len(e.msg)] = BT)
        => /\ ~Aborted
           /\ error = Absent
           /\ AnswerText = PyStr(SubSeq(e.msg, Len(StripPrefix) + 1, Len(e.msg) - 1))

C3_Witness ==
    /\ AgentRaised
    /\ AgentFailure = [type |-> "ValueError", msg |-> StripPrefix \o <<"a", BT>>]
    /\ AnswerText = PyStr(<<"a">>)

\* C4: every agent parse failure whose message begins with the literal
\* prefix is recovered, and the answer text returned no longer begins with
\* that prefix.
C4_PrefixAlwaysStripped ==
    (AgentRaised /\ AgentFailure.type = "ValueError" /\ startswith(AgentFailure.msg, ParsePrefix)) =>
        /\ ~Aborted
        /\ ~startswith(AnswerText.v, ParsePrefix)

\* C5: an agent failure whose message does not start with the literal prefix
\* propagates unchanged: the invocation aborts with that failure,
\* lex_format_response is not reached and no envelope is produced.
C5_OtherFailurePropagates ==
    (AgentRaised /\ ~startswith(AgentFailure.msg, ParsePrefix)) =>
        /\ Aborted
        /\ error = AgentFailure
        /\ response_text = Absent
        /\ envelope = Absent
        /\ event.sessionState.intent.state # "Fulfilled"

C5_Witness ==
    /\ Aborted
    /\ AgentRaised
    /\ AgentFailure = [type |-> "ValueError", msg |-> SubSeq(ParsePrefix, 1, Len(ParsePrefix) - 1)]

\* C6: for an empty transcript the handler takes the Search Path, the
\* retrieval service is queried with the fixed literal query and index id,
\* and the value of the 'completion' field of the LLM's JSON response is the
\* content of the single message of the returned envelope.
C6_SearchPathCompletion ==
    (event.inputTranscript = <<>> /\ pc # "handler") =>
        /\ calls[1].svc = "kendra.retrieve"
        /\ calls[1].kind = "call"
        /\ calls[1].data.v.QueryText = "get me wiki"
        /\ calls[1].data.v.IndexId = "823fed26-38f9-490a-bdfc-d89e19f95a63"
        /\ NumCalls("lex_agent.run") = 0
        /\ Returned =>
              /\ ModelReturned
              /\ Len(envelope.messages) = 1
              /\ \A p \in ModelBody.fields :
                    p[1] = "completion" => envelope.messages[1].content = p[2]

C6_Witness ==
    /\ Returned
    /\ event.inputTranscript = <<>>
    /\ envelope.messages[1].content = PyStr(<<"I"," ","d","o","n","t"," ","k","n","o","w">>)

\* C7 as stated: at most two outbound calls, strictly sequential; Search
\* Path: exactly one retrieval call, completed before the single direct LLM
\* call; Assistant Path: exactly one agent call, no retrieval call, no retry.
C7_Original ==
    /\ TotalCalls <= 2
    /\ StrictlySequential
    /\ (event.inputTranscript = <<>> /\ pc # "handler") =>
          /\ NumCalls("kendra.retrieve") = 1
          /\ NumCalls("bedrock.invoke_model") <= 1
          /\ NumCalls("lex_agent.run") = 0
          /\ Returned => NumCalls("bedrock.invoke_model") = 1
    /\ (NonEmptyTranscript /\ pc # "handler") =>
          /\ NumCalls("lex_agent.run") = 1
          /\ NumCalls("kendra.retrieve") = 0
          /\ NumCalls("bedrock.invoke_model") = 0

\* C7 amended: as C7, except that the Assistant Path makes its one agent
\* call only when the invocation source is DialogCodeHook and makes no
\* outbound call at all otherwise.
C7_CallsPerInvocation ==
    /\ TotalCalls <= 2
    /\ StrictlySequential
    /\ (event.inputTranscript = <<>> /\ pc # "handler") =>
          /\ NumCalls("kendra.retrieve") = 1
          /\ NumCalls("bedrock.invoke_model") <= 1
          /\ NumCalls("lex_agent.run") = 0
          /\ Returned => NumCalls("bedrock.invoke_model") = 1
    /\ (NonEmptyTranscript /\ pc # "handler") =>
          /\ NumCalls("lex_agent.run") = (IF FromDialogCodeHook THEN 1 ELSE 0)
          /\ NumCalls("kendra.retrieve") = 0
          /\ NumCalls("bedrock.invoke_model") = 0

C7_Witness ==
    /\ Returned
    /\ event.inputTranscript = <<>>
    /\ Len(calls) = 4
    /\ calls[2].kind = "return"
    /\ calls[3].kind = "call"

\* C8 as stated: on the Search Path a JSON response body without a
\* 'completion' key is fatal: no answer, no envelope.
C8_Original ==
    (ModelReturned /\ ModelBody.json = "object" /\ ~HasCompletion(ModelBody)) =>
        /\ Aborted
        /\ response_text = Absent

\* C8 amended: on the Search Path a JSON object without a 'completion' key
\* is not a failure: invoke_llm returns None and the handler returns a
\* closing, fulfilled envelope whose single PlainText message has null
\* content; a body that is not JSON, or not a JSON object, is fatal and no
\* envelope is produced.
C8_MissingCompletionIsNone ==
    /\ (ModelReturned /\ ModelBody.json = "object" /\ ~HasCompletion(ModelBody)) =>
          /\ ~Aborted
          /\ error = Absent
          /\ response_text = PyNone
          /\ Returned => OneClosingPlainText(PyNone)
    /\ (ModelReturned /\ ModelBody.json # "object") =>
          /\ Aborted
          /\ response_text = Absent
          /\ envelope = Absent

C8_Witness ==
    /\ Returned
    /\ ModelReturned
    /\ ModelBody = [json |-> "object", fields |-> {<<"stop_reason", PyStr(<<"s">>)>>}]
    /\ envelope.messages[1].content = PyNone

\* C9: every returned envelope has session attributes exactly
\* {history: none} and dialog action Close, and carries no session attribute
\* of the input event anywhere.
C9_InputAttributesDiscarded ==
    Returned =>
        /\ envelope.sessionState.sessionAttributes = {<<"history", "none">>}
        /\ envelope.sessionState.dialogAction.type = "Close"
        /\ session_attributes_of(event) \cap CarriedAttributes = {}

\* C10: for a non-empty transcript whose invocation source is not
\* DialogCodeHook the Assistant Path makes no outbound call and produces no
\* result, and the handler still returns a closing, fulfilled envelope whose
\* single PlainText message has null content.
C10_NoHookNullContent ==
    (NonEmptyTranscript /\ ~FromDialogCodeHook) =>
        /\ calls = <<>>
        /\ ~Aborted
        /\ pc \in {"handler", "lex_format_response", "returned"}
        /\ pc # "handler" => response_text = PyNone
        /\ Returned => OneClosingPlainText(PyNone)

C10_Witness ==
    /\ Returned
    /\ NonEmptyTranscript
    /\ ~FromDialogCodeHook
    /\ envelope.messages[1].content = PyNone
    /\ calls = <<>>
====
